---- MODULE Spec2Model ----
(***************************************************************************)
(* A model of the read-only ClickHouse query server: the startup probe and *)
(* teardown of app_lifespan (lifespan_code.py), the tool                   *)
(* clickhouse_execute_read and the query gateway execute_db_query          *)
(* (main.py), and the result normalizers and formatter (func.py).          *)
(*                                                                         *)
(* Text is a sequence of one-character strings, so that strip, lower,      *)
(* startswith, split and slicing are computed as Python computes them.     *)
(* An f-string is the sequence of its parts (a literal or an interpolated  *)
(* value), each part a record.                                             *)
(***************************************************************************)
EXTENDS Integers, Sequences, FiniteSets, TLC

VARIABLES
    phase,             \* position of app_lifespan
    conn,              \* app_lifespan's local conn
    connection_mode,   \* app_lifespan's local connection_mode
    app_context,       \* the module-level AppContext
    native_available,  \* CLICKHOUSE_NATIVE_AVAILABLE (is clickhouse_driver installed)
    probes,            \* the requests the startup probe has made, in order
    handle,            \* the native client stored at startup: none, open, closed
    releases,          \* how often teardown released the native client
    call,              \* the tool call in progress, or the last one finished
    norm,              \* the normalizer harness: one input and its result
    office,            \* mcp_server_office.py: the run_select_query calls and the pool
    loop               \* the event loop that runs the clickhouse_execute_read calls

vars == <<phase, conn, connection_mode, app_context, native_available, probes,
          handle, releases, call, norm, office, loop>>

(***************************************************************************)
(* Bounds of the model.                                                    *)
(***************************************************************************)
MaxBody == 3      \* characters of a statement after its leading keyword
MaxRawRows == 3   \* rows of a raw native or JSON result
MaxText == 4      \* characters of a raw HTTP text body
MaxWidth == 2     \* values of a raw row
MaxSmallRows == 3 \* max_rows is drawn from -1..MaxSmallRows, the default and the limit
MaxTokens == 3      \* pieces of a query text with placeholders
MaxParams == 2      \* items of a parameter mapping
NumCallers == 3     \* tool calls issued concurrently
MaxWorkers == 2     \* workers of the pool in the model (QUERY_EXECUTOR has 10)

(***************************************************************************)
(* Python helpers.                                                         *)
(***************************************************************************)
Min(a, b) == IF a <= b THEN a ELSE b
Max(a, b) == IF a >= b THEN a ELSE b

\* s[:n]
SliceTo(s, n) ==
    IF n >= 0 THEN SubSeq(s, 1, Min(n, Len(s)))
    ELSE SubSeq(s, 1, Max(Len(s) + n, 0))

LowerLetters == <<"a","b","c","d","e","f","g","h","i","j","k","l","m",
                  "n","o","p","q","r","s","t","u","v","w","x","y","z">>
UpperLetters == <<"A","B","C","D","E","F","G","H","I","J","K","L","M",
                  "N","O","P","Q","R","S","T","U","V","W","X","Y","Z">>

LowerChar(c) ==
    IF \E i \in 1..26 : UpperLetters[i] = c
    THEN LowerLetters[CHOOSE i \in 1..26 : UpperLetters[i] = c]
    ELSE c
UpperChar(c) ==
    IF \E i \in 1..26 : LowerLetters[i] = c
    THEN UpperLetters[CHOOSE i \in 1..26 : LowerLetters[i] = c]
    ELSE c

\* str.lower()
Lower(s) == [i \in 1..Len(s) |-> LowerChar(s[i])]

Whitespace == {" ", "\t", "\n"}

\* str.strip()
Strip(s) ==
    IF \A i \in 1..Len(s) : s[i] \in Whitespace THEN <<>>
    ELSE LET first == CHOOSE i \in 1..Len(s) :
                          s[i] \notin Whitespace /\ \A j \in 1..(i-1) : s[j] \in Whitespace
             last  == CHOOSE i \in 1..Len(s) :
                          s[i] \notin Whitespace /\ \A j \in (i+1)..Len(s) : s[j] \in Whitespace
         IN SubSeq(s, first, last)

\* s.startswith(p)
StartsWith(s, p) == Len(s) >= Len(p) /\ SubSeq(s, 1, Len(p)) = p

\* s.startswith(tuple of prefixes)
StartsWithAny(s, ps) == \E p \in ps : StartsWith(s, p)

\* c in s
Contains(s, c) == \E i \in 1..Len(s) : s[i] = c

(***************************************************************************)
(* Statements.  A statement handed to the tool is optional leading         *)
(* whitespace, a keyword in some letter case (or none), a body and         *)
(* optional trailing whitespace.                                           *)
(***************************************************************************)
KwSelect   == <<"s","e","l","e","c","t">>
KwShow     == <<"s","h","o","w">>
KwDescribe == <<"d","e","s","c","r","i","b","e">>
KwDesc     == <<"d","e","s","c">>
KwExplain  == <<"e","x","p","l","a","i","n">>
KwInsert   == <<"i","n","s","e","r","t">>
KwUpdate   == <<"u","p","d","a","t","e">>
KwDelete   == <<"d","e","l","e","t","e">>
KwDrop     == <<"d","r","o","p">>
KwAlter    == <<"a","l","t","e","r">>
KwCreate   == <<"c","r","e","a","t","e">>

ReadKeywords  == {KwSelect, KwShow, KwDescribe, KwDesc, KwExplain}
WriteKeywords == {KwInsert, KwUpdate, KwDelete, KwDrop, KwAlter, KwCreate}

Upper(s) == [i \in 1..Len(s) |-> UpperChar(s[i])]
Capital(s) == [i \in 1..Len(s) |-> IF i = 1 THEN UpperChar(s[i]) ELSE s[i]]
Cased(k, c) == IF c = "lower" THEN k ELSE IF c = "upper" THEN Upper(k) ELSE Capital(k)
Cases == {"lower", "upper", "capital"}

BodyChars == {" ", ";", "1"}
Bodies == UNION {[1..n -> BodyChars] : n \in 0..MaxBody}
Leads == {<<>>, <<"\n">>}
Trails == {<<>>, <<" ">>}

\* What a caller can send: the pieces, and the text they make.
StatementInputs ==
    [lead : Leads, kw : ReadKeywords \cup WriteKeywords \cup {<<>>},
     case : Cases, body : Bodies, trail : Trails]
StatementText(i) == i.lead \o Cased(i.kw, i.case) \o i.body \o i.trail

\* Statements whose results the normalizers tell apart (show tables, describe, ...).
BodyTables == <<" ","t","a","b","l","e","s">>
SampleStatements ==
    [lead : {<<>>}, kw : ReadKeywords, case : {"lower"},
     body : {<<>>, BodyTables}, trail : {<<>>}]


(***************************************************************************)
(* Text built by f-strings: a sequence of parts.                           *)
(***************************************************************************)
Lit(s)   == [lit |-> s]      \* a literal of the source
Str(t)   == [str |-> t]      \* an interpolated text (a sequence of characters)
Num(n)   == [num |-> n]      \* an interpolated integer
Err(m)   == [err |-> m]      \* the message of an exception raised by a transport

ErrorMessages == {"connection refused", "server exception"}

(***************************************************************************)
(* Python values of a result.  Every value carries its kind: a    *)
(* string, a tuple, a list or a dict (keys in insertion order).            *)
(***************************************************************************)
PyStr(t)       == [kind |-> "str", text |-> t]
PyInt(n)       == [kind |-> "int", value |-> n]
PyTuple(cells) == [kind |-> "tuple", cells |-> cells]
PyList(cells)  == [kind |-> "list", cells |-> cells]
PyDict(keys, cells) == [kind |-> "dict", keys |-> keys, cells |-> cells]

\* Column names: a name of the source or of a key, or f"column_{i}".
Name(s)   == [name |-> s]
Column(i) == [column |-> i]

\* The canonical result dict.  data = None is has_data = FALSE; error = None
\* is the empty text.
QueryResult(success, has_data, data, error, row_count, column_names) ==
    [success |-> success, has_data |-> has_data, data |-> data, error |-> error,
     row_count |-> row_count, column_names |-> column_names]

EmptyResult == QueryResult(TRUE, TRUE, <<>>, <<>>, 0, <<>>)
FailedResult(error) == QueryResult(FALSE, FALSE, <<>>, error, 0, <<>>)

\* s.index(c) for a c that occurs in s
IndexOf(s, c) == CHOOSE i \in 1..Len(s) : s[i] = c /\ \A j \in 1..(i-1) : s[j] # c

\* s.split(sep)
RECURSIVE Split(_, _)
Split(s, sep) ==
    IF ~Contains(s, sep) THEN <<s>>
    ELSE LET i == IndexOf(s, sep)
         IN <<SubSeq(s, 1, i - 1)>> \o Split(SubSeq(s, i + 1, Len(s)), sep)

\* [x for x in s if keep(x)]
RECURSIVE NonBlank(_)
NonBlank(lines) ==
    IF lines = <<>> THEN <<>>
    ELSE (IF Strip(Head(lines)) = <<>> THEN <<>> ELSE <<Head(lines)>>)
         \o NonBlank(Tail(lines))

\* process_clickhouse_result without the truncation of data.
process_clickhouse_result_untruncated(result, max_rows) ==
    IF ~result.has_data THEN EmptyResult
    ELSE QueryResult(TRUE, TRUE, result.data, <<>>, Len(result.data),
                     IF result.has_meta THEN result.meta ELSE <<>>)

(***************************************************************************)
(* func.py: process_clickhouse_result.  result is the decoded JSON object: *)
(* has_data and has_meta say whether the keys are present.                 *)
(***************************************************************************)
process_clickhouse_result(result, max_rows) ==
    IF ~result.has_data THEN EmptyResult
    ELSE LET rows == result.data
             column_names ==
                 IF result.has_meta THEN result.meta
                 ELSE IF rows # <<>> /\ rows[1].kind = "dict" THEN rows[1].keys
                 ELSE <<>>
         IN QueryResult(TRUE, TRUE, SliceTo(rows, max_rows), <<>>, Len(rows),
                        column_names)

(***************************************************************************)
(* func.py: process_clickhouse_response.  response.ctype is what the       *)
(* Content-Type header matches (json, tsv, or neither); json_ok says       *)
(* whether response.json() decodes, json.is_object whether it decodes to   *)
(* an object of the expected types (anything else raises in                *)
(* process_clickhouse_result).                                             *)
(***************************************************************************)
\* The loop over the lines of a TSV body: <<rows, column_names>>.
RECURSIVE TsvRows(_, _, _)
TsvRows(lines, rows, column_names) ==
    IF lines = <<>> THEN <<rows, column_names>>
    ELSE LET line == Head(lines)
         IN IF Strip(line) = <<>> THEN TsvRows(Tail(lines), rows, column_names)
            ELSE IF Contains(line, "\t")
            THEN LET split == Split(line, "\t")
                     row_values == [i \in 1..Len(split) |-> PyStr(split[i])]
                     names == IF Len(column_names) = 1 /\ Len(column_names) < Len(row_values)
                              THEN [i \in 1..Len(row_values) |-> Column(i)]
                              ELSE column_names
                 IN TsvRows(Tail(lines), Append(rows, PyList(row_values)), names)
            ELSE TsvRows(Tail(lines), Append(rows, PyList(<<PyStr(line)>>)), column_names)

ProcessTsv(response, max_rows) ==
    LET text == Strip(response.text)
        lines == Split(text, "\n")
    IN IF text = <<>> THEN EmptyResult
       ELSE IF Len(lines) = 1 /\ ~Contains(lines[1], "\t")
       THEN QueryResult(TRUE, TRUE, <<PyList(<<PyStr(lines[1])>>)>>, <<>>, 1,
                        <<Name("result")>>)
       ELSE LET r == TsvRows(lines, <<>>, <<Name("value")>>)
            IN QueryResult(TRUE, TRUE, SliceTo(r[1], max_rows), <<>>, Len(r[1]), r[2])

ProcessText(response, max_rows) ==
    LET text == Strip(response.text)
    IN IF text = <<>> THEN EmptyResult
       ELSE IF ~Contains(text, "\n")
       THEN QueryResult(TRUE, TRUE, <<PyList(<<PyStr(text)>>)>>, <<>>, 1,
                        <<Name("result")>>)
       ELSE LET lines == NonBlank(Split(text, "\n"))
                kept == SliceTo(lines, max_rows)
            IN QueryResult(TRUE, TRUE,
                           [i \in 1..Len(kept) |-> PyList(<<PyStr(kept[i])>>)],
                           <<>>, Len(lines), <<Name("result")>>)

process_clickhouse_response(response, max_rows) ==
    IF response.ctype = "json" /\ response.json_ok
    THEN IF response.json.is_object
         THEN process_clickhouse_result(response.json, max_rows)
         ELSE FailedResult(<<Err("TypeError")>>)   \* the outer except
    ELSE IF response.ctype = "tsv" THEN ProcessTsv(response, max_rows)
    ELSE ProcessText(response, max_rows)

(***************************************************************************)
(* func.py: process_native_result.  result_set.shape is "none" for a falsy *)
(* value that is no list (None, 0), "value" for any other value that is no *)
(* list, "list" for a list of rows.                                        *)
(***************************************************************************)
DescribeColumns ==
    <<Name("name"), Name("type"), Name("default_type"), Name("default_expression")>>

\* len(row) of a tuple, list or dict
PyLen(v) == Len(v.cells)

process_native_result(result_set, query_lower, max_rows) ==
    IF result_set.shape = "none" \/ (result_set.shape = "list" /\ result_set.rows = <<>>)
    THEN EmptyResult
    ELSE IF result_set.shape # "list"
    THEN QueryResult(TRUE, TRUE, <<PyList(<<PyStr(result_set.text)>>)>>, <<>>, 1,
                     <<Name("result")>>)
    ELSE LET rows == result_set.rows
             first == rows[1]
             kept == SliceTo(rows, max_rows)
             is_show_query ==
                 StartsWithAny(query_lower, {KwShow, KwDescribe, KwDesc})
         IN IF is_show_query
            THEN IF first.kind \in {"list", "tuple"}
                 THEN LET column_names ==
                              IF StartsWith(query_lower, KwShow \o BodyTables)
                              THEN <<Name("table_name")>>
                              ELSE IF StartsWithAny(query_lower, {KwDescribe, KwDesc})
                              THEN DescribeColumns
                              ELSE [i \in 1..PyLen(first) |-> Column(i - 1)]
                      IN QueryResult(TRUE, TRUE, kept, <<>>, Len(rows), column_names)
                 ELSE QueryResult(TRUE, TRUE,
                                  [i \in 1..Len(kept) |-> PyList(<<kept[i]>>)],
                                  <<>>, Len(rows), <<Name("value")>>)
            ELSE IF first.kind = "dict"
            THEN QueryResult(TRUE, TRUE, kept, <<>>, Len(rows), first.keys)
            ELSE LET num_cols == IF first.kind \in {"list", "tuple"} THEN PyLen(first) ELSE 1
                 IN QueryResult(TRUE, TRUE, kept, <<>>, Len(rows),
                                [i \in 1..num_cols |-> Column(i - 1)])

(***************************************************************************)
(* func.py: format_query_results.  The text is the lines joined by "\n":   *)
(* here the sequence of the lines.                                         *)
(***************************************************************************)
RECURSIVE SumOf(_)
SumOf(ns) == IF ns = <<>> THEN 0 ELSE Head(ns) + SumOf(Tail(ns))

\* len(repr(v)) of a tuple, list or dict of strings
ReprLen(v) ==
    LET n == Len(v.cells)
        items == SumOf([i \in 1..n |-> Len(v.cells[i].text) + 2])
        commas == IF n > 1 THEN 2 * (n - 1) ELSE 0
    IN IF v.kind = "tuple" THEN 2 + items + commas + (IF n = 1 THEN 1 ELSE 0)
       ELSE IF v.kind = "list" THEN 2 + items + commas
       ELSE 2 + items + commas + SumOf([i \in 1..n |-> Len(v.keys[i].name) + 4])

\* len(str(n)) of an int that is not negative
RECURSIVE DigitsOf(_)
DigitsOf(n) == IF n < 10 THEN 1 ELSE 1 + DigitsOf(n \div 10)

\* str(cell) of a data cell, with its length
StrOfCell(v) ==
    IF v.kind = "str" THEN [text |-> v.text, len |-> Len(v.text)]
    ELSE IF v.kind = "int" THEN [num |-> v.value, len |-> DigitsOf(v.value)]
    ELSE [repr |-> v, len |-> ReprLen(v)]

\* str(name) of a column name, with its length
StrOfName(n) ==
    IF "name" \in DOMAIN n THEN [name |-> n, len |-> Len(n.name)]
    ELSE [name |-> n, len |-> 8]

EmptyCell == [text |-> <<>>, len |-> 0]

\* row.get(col, '') of a dict row
DictGet(row, col) ==
    IF \E i \in 1..Len(row.keys) : row.keys[i] = col
    THEN StrOfCell(row.cells[CHOOSE i \in 1..Len(row.keys) : row.keys[i] = col])
    ELSE EmptyCell

MaxOf(S) == CHOOSE m \in S : \A x \in S : x <= m

\* row_format.format(*row): one cell per column, each padded to its width;
\* cells beyond the columns are not rendered, missing ones are "".
FormatRow(row, col_widths) ==
    [cells |-> [i \in 1..Len(col_widths) |-> IF i <= Len(row) THEN row[i] ELSE EmptyCell],
     widths |-> col_widths]

Separator(col_widths) == [separator |-> col_widths]

Line(parts) == [line |-> parts]

\* An exception that leaves a function instead of a text.
Raises(e) == <<[raises |-> e]>>

\* row.get(col, '') is called on every row once the first row is a dict: a row
\* of another kind has no get.
FormatterRaises(result) ==
    /\ result.success /\ result.error = <<>> /\ result.has_data /\ result.data # <<>>
    /\ result.data[1].kind = "dict"
    /\ \E r \in DOMAIN result.data : result.data[r].kind # "dict"

\* Footer that reports row_count as the number of rows shown.
FooterOfRowCount(result) ==
    Line(<<Lit("Total rows: "), Num(result.row_count),
           Lit(" (showing first "), Num(result.row_count), Lit(")")>>)

\* f"Total rows: {result['row_count']} (showing first {len(data)})"
Footer(result) ==
    Line(<<Lit("Total rows: "), Num(result.row_count),
           Lit(" (showing first "), Num(Len(result.data)), Lit(")")>>)

format_query_results(result) ==
    IF ~result.success THEN <<Line(<<Lit("Error executing query: ")>> \o result.error)>>
    ELSE IF result.error # <<>> THEN <<Line(<<Lit("Error: ")>> \o result.error)>>
    ELSE IF ~result.has_data \/ result.data = <<>>
    THEN <<Line(<<Lit("Query executed. Rows returned: "), Num(result.row_count)>>)>>
    ELSE IF FormatterRaises(result) THEN Raises("AttributeError")
    ELSE
    LET data == result.data
        column_names == result.column_names
        header == IF column_names # <<>>
                  THEN << [i \in 1..Len(column_names) |-> StrOfName(column_names[i])] >>
                  ELSE <<>>
        data_rows ==
            IF data[1].kind = "dict"
            THEN [r \in 1..Len(data) |->
                     [i \in 1..Len(column_names) |-> DictGet(data[r], column_names[i])]]
            ELSE IF data[1].kind = "list"
            THEN [r \in 1..Len(data) |->
                     [i \in 1..Len(data[r].cells) |-> StrOfCell(data[r].cells[i])]]
            ELSE [r \in 1..Len(data) |-> <<StrOfCell(data[r])>>]
        str_rows == header \o data_rows
        col_widths ==
            [i \in 1..Len(str_rows[1]) |->
                MaxOf({str_rows[r][i].len : r \in {q \in 1..Len(str_rows) : i <= Len(str_rows[q])}})]
        separator == Separator(col_widths)
    IN <<separator>>
       \o (IF column_names # <<>> THEN <<FormatRow(str_rows[1], col_widths), separator>>
           ELSE <<>>)
       \o [r \in 1..Len(data_rows) |-> FormatRow(data_rows[r], col_widths)]
       \o <<separator, Footer(result)>>

(***************************************************************************)
(* lifespan_code.py: configuration, AppContext, the startup probe.         *)
(***************************************************************************)
\* requests is imported unconditionally at the top of lifespan_code.py, so the
\* guarded import that sets this flag cannot fail in a process that runs.
CLICKHOUSE_HTTP_AVAILABLE == TRUE

Database == "default"

NoConnection ==
    [present |-> FALSE, connection |-> "None", database |-> "None",
     connection_type |-> "None"]

\* DatabaseConnection(connection=..., database=config["database"], connection_type=...)
DatabaseConnection(connection, connection_type) ==
    [present |-> TRUE, connection |-> connection, database |-> Database,
     connection_type |-> connection_type]

\* app_context = AppContext()
AppContext == [connection |-> NoConnection, connection_mode |-> "None"]

NoInput == [lead |-> <<>>, kw |-> <<>>, case |-> "lower", body |-> <<>>, trail |-> <<>>]

\* No call yet.  entered: execute_db_query was invoked; ops: the transport
\* operations the call has performed, in order; outcomes: what the server did
\* on each; statements: the statement text handed to the transport on each;
\* temporary: the native client the call made for itself ("none",
\* "constructed", "disconnected"); ret: the text returned.  params = None is
\* the empty mapping.
IdleCall ==
    [pc |-> "idle", input |-> NoInput, query |-> <<>>, params |-> <<>>,
     max_rows |-> 0, entered |-> FALSE, ops |-> <<>>, outcomes |-> <<>>,
     statements |-> <<>>, temporary |-> "none",
     connection_error |-> <<>>, ret |-> <<>>]

Callers == 1..NumCallers

\* The state of a server that is not the one running.
OfficeAbsent ==
    [active |-> FALSE, pc |-> [c \in Callers |-> "idle"],
     task |-> [c \in Callers |-> "none"], outcome |-> [c \in Callers |-> "none"],
     ret |-> [c \in Callers |-> [kind |-> "none"]], queue |-> <<>>]

LoopAbsent == [active |-> FALSE, running |-> 0, pc |-> [c \in Callers |-> "none"]]

NoNorm ==
    [fn |-> "None", input |-> "None", query_lower |-> <<>>, max_rows |-> 0,
     done |-> FALSE, out |-> "None", formatted |-> FALSE, text |-> <<>>]

Init ==
    /\ phase = "uninitialized"
    /\ conn = NoConnection
    /\ connection_mode = "None"
    /\ app_context = AppContext
    /\ native_available \in BOOLEAN
    /\ probes = <<>>
    /\ handle = "none"
    /\ releases = 0
    /\ call = IdleCall
    /\ norm = NoNorm
    /\ office = OfficeAbsent
    /\ loop = LoopAbsent

Probe(transport, request, result) ==
    [transport |-> transport, request |-> request, result |-> result]

\* The first HTTP request of the probe: requests.get(url, "SELECT 1") and
\* raise_for_status.
HttpGet ==
    /\ phase = "uninitialized"
    /\ IF CLICKHOUSE_HTTP_AVAILABLE
       THEN \E result \in {"ok", "connect_failed"} :
                /\ probes' = Append(probes, Probe("http", "get", result))
                /\ phase' = IF result = "ok" THEN "http_execute" ELSE "native_check"
       ELSE /\ probes' = probes
            /\ phase' = "native_check"
    /\ connection_mode' = "None"
    /\ UNCHANGED <<conn, app_context, native_available, handle, releases, call, norm,
                   office, loop>>

\* http_conn.execute("SELECT 1") and, when it returns, the DatabaseConnection.
HttpExecute ==
    /\ phase = "http_execute"
    /\ \E result \in {"ok", "query_failed"} :
        /\ probes' = Append(probes, Probe("http", "execute", result))
        /\ IF result = "ok"
           THEN /\ conn' = DatabaseConnection("http_conn", "http")
                /\ connection_mode' = "http"
           ELSE /\ conn' = conn
                /\ connection_mode' = "None"
    /\ phase' = "native_check"
    /\ UNCHANGED <<app_context, native_available, handle, releases, call, norm,
                   office, loop>>

\* NativeProbeEnabled without the test of connection_mode: native is probed
\* whatever the HTTP probe did.
NativeProbeAlways == native_available

\* if connection_mode is None and CLICKHOUSE_NATIVE_AVAILABLE and ClickHouseClient is not None
NativeProbeEnabled == connection_mode = "None" /\ native_available

\* The native branch: ClickHouseClient(...), client.execute("SELECT 1"), the
\* DatabaseConnection, and the assignment of app_context that closes the branch.
NativeProbe ==
    /\ phase = "native_check"
    /\ NativeProbeEnabled
    /\ \E result \in {"ok", "connect_failed", "query_failed"} :
        /\ probes' = Append(probes, Probe("native", "execute", result))
        /\ LET c == IF result = "ok" THEN DatabaseConnection("client", "native") ELSE conn
               m == IF result = "ok" THEN "native" ELSE connection_mode
           IN /\ conn' = c
              /\ connection_mode' = m
              /\ app_context' = [connection |-> c, connection_mode |-> m]
        /\ handle' = IF result = "ok" THEN "open" ELSE handle
    /\ phase' = "running"
    /\ UNCHANGED <<native_available, releases, call, norm, office, loop>>

\* The else of the native branch: it only logs, and app_context is not assigned.
NativeSkipped ==
    /\ phase = "native_check"
    /\ ~NativeProbeEnabled
    /\ phase' = "running"
    /\ UNCHANGED <<conn, connection_mode, app_context, native_available, probes,
                   handle, releases, call, norm, office, loop>>

\* Shutdown that clears app_context inside the try: a release that raises
\* leaves the connection in place.
ShutdownKeepsOnError ==
    /\ phase = "running"
    /\ call.pc = "idle"
    /\ IF app_context.connection.present
       THEN IF app_context.connection.connection_type = "native"
               /\ app_context.connection.connection # "None"
            THEN \E raised \in BOOLEAN :
                    /\ releases' = releases + 1
                    /\ handle' = IF raised THEN handle ELSE "closed"
                    /\ app_context' = IF raised THEN app_context
                                      ELSE [connection |-> NoConnection,
                                            connection_mode |-> "None"]
            ELSE /\ UNCHANGED <<releases, handle>>
                 /\ app_context' = [connection |-> NoConnection, connection_mode |-> "None"]
       ELSE UNCHANGED <<releases, handle, app_context>>
    /\ phase' = "closed"
    /\ UNCHANGED <<conn, connection_mode, native_available, probes, call, norm,
                   office, loop>>

\* Shutdown that clears app_context.connection and leaves connection_mode.
ShutdownLeavesMode ==
    /\ phase = "running"
    /\ call.pc = "idle"
    /\ IF app_context.connection.present
       THEN /\ IF app_context.connection.connection_type = "native"
                  /\ app_context.connection.connection # "None"
               THEN \E raised \in BOOLEAN :
                        /\ releases' = releases + 1
                        /\ handle' = IF raised THEN handle ELSE "closed"
               ELSE UNCHANGED <<releases, handle>>
            /\ app_context' = [app_context EXCEPT !.connection = NoConnection]
       ELSE UNCHANGED <<releases, handle, app_context>>
    /\ phase' = "closed"
    /\ UNCHANGED <<conn, connection_mode, native_available, probes, call, norm,
                   office, loop>>

\* The finally block of app_lifespan.
Shutdown ==
    /\ phase = "running"
    /\ call.pc = "idle"
    /\ IF app_context.connection.present
       THEN /\ IF app_context.connection.connection_type = "native"
                  /\ app_context.connection.connection # "None"
               THEN \E raised \in BOOLEAN :
                        /\ releases' = releases + 1
                        /\ handle' = IF raised THEN handle ELSE "closed"
               ELSE UNCHANGED <<releases, handle>>
            /\ app_context' = [connection |-> NoConnection, connection_mode |-> "None"]
       ELSE UNCHANGED <<releases, handle, app_context>>
    /\ phase' = "closed"
    /\ UNCHANGED <<conn, connection_mode, native_available, probes, call, norm,
                   office, loop>>


(***************************************************************************)
(* What the server can answer.                                             *)
(***************************************************************************)
Values == {<<"1">>, <<"x">>}
Keys == [i \in 1..MaxWidth |-> Name(<<"a", "b", "c", "d">>[i])]

MakeRow(kind, cells) ==
    IF kind = "dict" THEN PyDict(SubSeq(Keys, 1, Len(cells)), cells)
    ELSE IF kind = "tuple" THEN PyTuple(cells)
    ELSE PyList(cells)

\* Every list of n rows of one kind and width.
\* The first value of a row varies; the value of column i > 1 is i letters long.
CellAt(i, v) == IF i = 1 THEN v ELSE [j \in 1..i |-> "y"]
RowsOfKind(kind, w, n) ==
    { [r \in 1..n |-> MakeRow(kind, [i \in 1..w |-> PyStr(CellAt(i, f[r]))])] :
        f \in [1..n -> Values] }
ScalarRows(n) == { [r \in 1..n |-> PyStr(f[r])] : f \in [1..n -> Values] }

RowLists(kinds) ==
    UNION { RowsOfKind(k, w, n) : k \in kinds, w \in 1..MaxWidth, n \in 1..MaxRawRows }

\* What client.execute returns.
NativeNone == [shape |-> "none"]
NativeValue(t) == [shape |-> "value", text |-> t]
NativeList(rows) == [shape |-> "list", rows |-> rows]

NativeResultSets ==
    {NativeNone, NativeValue(<<"5">>), NativeList(<<>>)}
    \cup { NativeList(rows) : rows \in RowLists({"tuple", "list", "dict"}) }
    \cup { NativeList(rows) : rows \in UNION { ScalarRows(n) : n \in 1..MaxRawRows } }
    \cup { NativeList(<<PyInt(1)>>) }

\* What requests.get returns.
JsonObject(has_data, has_meta, meta, data) ==
    [is_object |-> TRUE, has_data |-> has_data, has_meta |-> has_meta,
     meta |-> meta, data |-> data]
JsonOther == [is_object |-> FALSE]

JsonResponse(json) == [ctype |-> "json", json_ok |-> TRUE, json |-> json, text |-> <<>>]
TextResponse(ctype, text) ==
    [ctype |-> ctype, json_ok |-> FALSE, json |-> JsonOther, text |-> text]

JsonBodies ==
    {JsonOther, JsonObject(FALSE, FALSE, <<>>, <<>>), JsonObject(TRUE, FALSE, <<>>, <<>>)}
    \cup { JsonObject(TRUE, m, IF m THEN SubSeq(Keys, 1, Len(rows[1].cells)) ELSE <<>>, rows) :
             m \in BOOLEAN, rows \in RowLists({"list", "dict"}) }

TextChars == {"a", " ", "\t", "\n"}
Texts == UNION { [1..n -> TextChars] : n \in 0..MaxText }

HttpResponses ==
    { JsonResponse(j) : j \in JsonBodies }
    \cup { TextResponse(c, t) : c \in {"json", "tsv", "other"}, t \in Texts }

Raised(m) == [kind |-> "error", error |-> m]
Returned(v) == [kind |-> "returned", value |-> v]

\* A few answers of each shape, for the calls of the running server.
SampleRows(kind, w) ==
    [r \in 1..MaxRawRows |->
        MakeRow(kind, [i \in 1..w |-> PyStr(CellAt(i, <<"1">>))])]

\* Rows the formatter cannot render: a dict, then a row that is none.
MixedRows == <<SampleRows("dict", 1)[1], SampleRows("list", 1)[1]>>

SampleNativeOutcomes ==
    { Raised(m) : m \in ErrorMessages }
    \cup { Returned(v) : v \in
             {NativeNone, NativeValue(<<"5">>), NativeList(<<>>),
              NativeList(SampleRows("tuple", MaxWidth)),
              NativeList(SampleRows("dict", MaxWidth)),
              NativeList(SubSeq(SampleRows("list", 1), 1, 1)),
              NativeList(MixedRows),
              NativeList([r \in 1..MaxRawRows |-> PyStr(<<"1">>)])} }

SampleHttpOutcomes ==
    { Raised(m) : m \in ErrorMessages }
    \cup { Returned(v) : v \in
             {JsonResponse(JsonOther),
              JsonResponse(JsonObject(FALSE, FALSE, <<>>, <<>>)),
              JsonResponse(JsonObject(TRUE, TRUE, Keys, SampleRows("list", MaxWidth))),
              JsonResponse(JsonObject(TRUE, FALSE, <<>>, SampleRows("dict", MaxWidth))),
              JsonResponse(JsonObject(TRUE, FALSE, <<>>, MixedRows)),
              TextResponse("json", <<"a">>),
              TextResponse("tsv", <<"a", "\t", "a", "\n", "a">>),
              TextResponse("tsv", <<>>),
              TextResponse("other", <<"a", "\n", "a", "\n", "a", "\n", "a", "\n", "a">>)} }

\* The max_rows argument of the tool.
MaxRowsLimit == 100     \* Field(..., le=100)
DefaultMaxRows == 10    \* Field(..., default=10)

(***************************************************************************)
(* func.py: the parameter substitution of execute_http_query.  params is   *)
(* the mapping in its insertion order, a sequence of items.  A key is a    *)
(* str or not; a value is a str or an int, with the text str(value) gives. *)
(***************************************************************************)
StrKey(t)   == [kind |-> "str", text |-> t]
IntKey      == [kind |-> "int", text |-> <<"1">>]
StrValue(t) == [kind |-> "str", text |-> t]
IntValue(t) == [kind |-> "int", text |-> t]
Item(key, value) == [key |-> key, value |-> value]

\* old in s
ContainsText(s, old) ==
    \E i \in 1..(Len(s) - Len(old) + 1) : SubSeq(s, i, i + Len(old) - 1) = old

\* s.replace(old, new), for an old that is not empty
RECURSIVE Replace(_, _, _)
Replace(s, old, new) ==
    IF Len(s) < Len(old) THEN s
    ELSE IF SubSeq(s, 1, Len(old)) = old
    THEN new \o Replace(SubSeq(s, Len(old) + 1, Len(s)), old, new)
    ELSE <<Head(s)>> \o Replace(Tail(s), old, new)

\* "{" + key + "}"
Placeholder(key) == <<"{">> \o key.text \o <<"}">>

\* f"'{value}'" if isinstance(value, str) else str(value)
Rendered(value) ==
    IF value.kind = "str" THEN <<"'">> \o value.text \o <<"'">> ELSE value.text

\* Lines 14-29: the loop over params.items().  "{" + key raises TypeError for
\* a key that is no str, and the except returns the failure.
RECURSIVE SubstituteParams(_, _)
SubstituteParams(query, params) ==
    IF params = <<>> THEN [raised |-> FALSE, query |-> query]
    ELSE LET key == Head(params).key
             value == Head(params).value
         IN IF key.kind # "str" THEN [raised |-> TRUE, query |-> query]
            ELSE SubstituteParams(
                     IF ContainsText(query, Placeholder(key))
                     THEN Replace(query, Placeholder(key), Rendered(value))
                     ELSE query,
                     Tail(params))

SubstitutionError == <<Lit("Error processing query parameters: "), Err("TypeError")>>

\* The queries and mappings the substitution is applied to.
Tokens == {<<"{", "p", "}">>, <<"{", "q", "}">>, <<"a">>, <<"{">>, <<"p", "}">>}
RECURSIVE Flatten(_)
Flatten(ts) == IF ts = <<>> THEN <<>> ELSE Head(ts) \o Flatten(Tail(ts))
QueryTexts == { Flatten(ts) : ts \in UNION { [1..n -> Tokens] : n \in 0..MaxTokens } }

ParamKeys == {StrKey(<<"p">>), StrKey(<<"q">>), IntKey}
ParamValues == {StrValue(<<"x">>), IntValue(<<"5">>), StrValue(<<"{", "q", "}">>)}
ParamMappings ==
    { m \in UNION { [1..n -> [key : ParamKeys, value : ParamValues]] : n \in 0..MaxParams } :
        \A i, j \in DOMAIN m : i # j => m[i].key # m[j].key }

(***************************************************************************)
(* func.py: execute_http_query, given what requests.get does (outcome).    *)
(***************************************************************************)
execute_http_query(query, params, outcome, max_rows) ==
    IF SubstituteParams(query, params).raised THEN FailedResult(SubstitutionError)
    ELSE IF outcome.kind = "error" THEN FailedResult(<<Err(outcome.error)>>)
    ELSE process_clickhouse_response(outcome.value, max_rows)

\* requests.get is reached: the substitution did not return the failure.
HttpRequestSent(query, params) == ~SubstituteParams(query, params).raised

\* The statement text a transport is given: params_dict["query"], the query
\* after the substitution, for HTTP (func.py:32-43); the query as the caller
\* wrote it, with params beside it, for the native client (execute(query,
\* params), main.py:107 and 147).
StatementHandedTo(transport, query, params) ==
    IF transport = "http" THEN SubstituteParams(query, params).query ELSE query

(***************************************************************************)
(* main.py: the tool boundary and execute_db_query.                        *)
(***************************************************************************)
\* The declared constraint of the max_rows argument, which the tool framework
\* enforces before it calls clickhouse_execute_read.
MaxRowsAccepted(max_rows) == max_rows <= MaxRowsLimit

MaxRowsInputs == (-1..MaxSmallRows) \cup {DefaultMaxRows, MaxRowsLimit, MaxRowsLimit + 1}

\* The arguments of the calls the model makes.
SampleParams ==
    {<<>>, <<Item(StrKey(<<"p">>), StrValue(<<"x">>))>>, <<Item(IntKey, StrValue(<<"x">>))>>}

\* Statements that hold the placeholder {p}, and mappings that bind p: to a
\* text, to an int, and to a text that holds a quote and a semicolon.
PlaceholderStatements ==
    [lead : {<<>>}, kw : {KwSelect}, case : {"lower"},
     body : {<<" ", "{", "p", "}">>}, trail : {<<>>, <<";">>}]
PlaceholderParams ==
    { <<Item(StrKey(<<"p">>), v)>> :
        v \in {StrValue(<<"x">>), IntValue(<<"5">>), StrValue(<<"'", ";", "x">>)} }

ToolInputs ==
    (StatementInputs \X {DefaultMaxRows} \X {<<>>})
    \cup (SampleStatements \X MaxRowsInputs \X {<<>>})
    \cup (SampleStatements \X {DefaultMaxRows} \X SampleParams)
    \cup (PlaceholderStatements \X {DefaultMaxRows} \X PlaceholderParams)

allowed_prefixes == {KwSelect, KwShow, KwDescribe, KwDesc, KwExplain}

\* PrefixAllowed without the lower(): a keyword is matched in lower case only.
PrefixAllowedCaseSensitive(query) == StartsWithAny(Strip(query), allowed_prefixes)

\* query_lower.startswith(allowed_prefixes)
PrefixAllowed(query) == StartsWithAny(Lower(Strip(query)), allowed_prefixes)

\* ";" in query[:-1]
MultipleStatements(query) == Contains(SliceTo(query, -1), ";")

get_connection == app_context.connection

PrefixError(query) ==
    <<Line(<<Lit("Error: Only read operations (SELECT, SHOW, DESCRIBE, EXPLAIN) are allowed. Rejected query: "),
             Str(query)>>)>>
MultipleError(query) ==
    <<Line(<<Lit("Error: Multiple statements are not allowed. Rejected query: "),
             Str(query)>>)>>
ConnectError == <<Line(<<Lit("Error: Could not connect to ClickHouse database")>>)>>
BoundaryError == <<Line(<<Lit("Input validation error: max_rows")>>)>>

\* BothFailedError that reports only the last failure.
BothFailedErrorLastOnly(mode, connection_error, alt_error) ==
    <<Line(<<Lit("Database error: ")>> \o alt_error)>>

\* The text of the except branch that ends a call whose two attempts failed.
BothFailedError(mode, connection_error, alt_error) ==
    <<Line(<<Lit("Database error: "), Lit("Primary connection ("), Lit(mode),
             Lit(") error: ")>> \o connection_error),
      Line(<<Lit("Alternate connection error: ")>> \o alt_error)>>

\* ReturnText without the outer except: the exception of the formatter leaves
\* execute_db_query.
ReturnTextUncaught(result) == format_query_results(result)

\* Lines 167-174: the result is formatted inside the outer try, whose except
\* turns any exception into a text (the message, then the traceback).
ReturnText(result) ==
    IF FormatterRaises(result)
    THEN <<Line(<<Lit("Database error: "), Err("AttributeError")>>),
           Line(<<Lit("Traceback (most recent call last):")>>)>>
    ELSE format_query_results(result)

Op(role, transport, client) == [role |-> role, transport |-> transport, client |-> client]

\* Lines 91-108: the attempt on the active transport.  ok is "no exception";
\* error is str(e) of the exception.
PrimaryAttempt(mode, outcome, query, params, max_rows) ==
    IF mode = "http"
    THEN LET result == execute_http_query(query, params, outcome, max_rows)
         IN IF result.success THEN [ok |-> TRUE, result |-> result, error |-> <<>>]
            ELSE [ok |-> FALSE, result |-> result, error |-> result.error]
    ELSE IF outcome.kind = "error"
         THEN [ok |-> FALSE, result |-> EmptyResult, error |-> <<Err(outcome.error)>>]
         ELSE [ok |-> TRUE,
               result |-> process_native_result(outcome.value, Lower(Strip(query)), max_rows),
               error |-> <<>>]

\* AlternateAttempt that keeps the primary attempt's max_rows out of the
\* alternate (it normalizes with the default).
AlternateAttemptDefaultRows(alt, outcome, query, params, max_rows) ==
    IF alt = "http"
    THEN LET result == execute_http_query(query, params, outcome, DefaultMaxRows)
         IN IF result.success THEN [ok |-> TRUE, result |-> result, error |-> <<>>]
            ELSE [ok |-> FALSE, result |-> result, error |-> result.error]
    ELSE IF outcome.kind = "error"
         THEN [ok |-> FALSE, result |-> EmptyResult,
               error |-> <<Lit("Native connection failed: "), Err(outcome.error)>>]
         ELSE [ok |-> TRUE,
               result |-> process_native_result(outcome.value, Lower(Strip(query)),
                                                DefaultMaxRows),
               error |-> <<>>]

\* Lines 121-154: the attempt on the other transport, native on a temporary
\* client.
AlternateAttempt(alt, outcome, query, params, max_rows) ==
    IF alt = "http"
    THEN LET result == execute_http_query(query, params, outcome, max_rows)
         IN IF result.success THEN [ok |-> TRUE, result |-> result, error |-> <<>>]
            ELSE [ok |-> FALSE, result |-> result, error |-> result.error]
    ELSE IF outcome.kind = "error"
         THEN [ok |-> FALSE, result |-> EmptyResult,
               error |-> <<Lit("Native connection failed: "), Err(outcome.error)>>]
         ELSE [ok |-> TRUE,
               result |-> process_native_result(outcome.value, Lower(Strip(query)), max_rows),
               error |-> <<>>]

\* Lines 138-154: client = ClickHouseClient(...); client.disconnect() stands
\* after execute and process_native_result inside the try, so it is reached
\* only when neither raised.
TemporaryClient(ok) == IF ok THEN "disconnected" ELSE "constructed"

OutcomesOf(transport) ==
    IF transport = "http" THEN SampleHttpOutcomes ELSE SampleNativeOutcomes

\* alternate_mode that names the active transport again.
alternate_mode_same == app_context.connection_mode

alternate_mode == IF app_context.connection_mode = "native" THEN "http" ELSE "native"

\* ConnectionMissing without the test: the call goes on with no connection.
ConnectionNeverMissing(c) == FALSE

\* if not conn
ConnectionMissing(c) == ~c.present

\* clickhouse_execute_read is invoked: the boundary, then execute_db_query up to
\* its first attempt (validation and get_connection).
ToolCall ==
    /\ phase \in {"running", "closed"}
    /\ call.pc = "idle"
    /\ \E in \in ToolInputs :
        LET input == in[1]
            max_rows == in[2]
            query == StatementText(input)
            new == [IdleCall EXCEPT !.input = input, !.query = query,
                                    !.params = in[3], !.max_rows = max_rows]
            done(ret) == [new EXCEPT !.pc = "done", !.entered = TRUE, !.ret = ret]
        IN call' =
            IF ~MaxRowsAccepted(max_rows)
            THEN [new EXCEPT !.pc = "done", !.ret = BoundaryError]
            ELSE IF ~PrefixAllowed(query) THEN done(PrefixError(query))
            ELSE IF MultipleStatements(query) THEN done(MultipleError(query))
            ELSE IF ConnectionMissing(get_connection) THEN done(ConnectError)
            ELSE [new EXCEPT !.pc = "primary", !.entered = TRUE]
    /\ UNCHANGED <<phase, conn, connection_mode, app_context, native_available,
                   probes, handle, releases, norm, office, loop>>

\* Step 1 of execute_db_query: the attempt on the transport chosen at startup.
Primary ==
    /\ call.pc = "primary"
    /\ LET mode == app_context.connection_mode
       IN \E outcome \in OutcomesOf(mode) :
            LET a == PrimaryAttempt(mode, outcome, call.query, call.params,
                                    call.max_rows)
                sent == mode # "http" \/ HttpRequestSent(call.query, call.params)
                ops == IF sent
                       THEN Append(call.ops,
                                   Op("primary", mode,
                                      IF mode = "http" THEN "request" ELSE "shared"))
                       ELSE call.ops
                outcomes == IF sent THEN Append(call.outcomes, outcome)
                            ELSE call.outcomes
                statements ==
                    IF sent
                    THEN Append(call.statements,
                                StatementHandedTo(mode, call.query, call.params))
                    ELSE call.statements
            IN call' =
                IF a.ok
                THEN [call EXCEPT !.pc = "done", !.ops = ops, !.outcomes = outcomes,
                                  !.statements = statements,
                                  !.ret = ReturnText(a.result)]
                ELSE [call EXCEPT !.pc = "alternate", !.ops = ops,
                                  !.outcomes = outcomes,
                                  !.statements = statements,
                                  !.connection_error = a.error]
    /\ UNCHANGED <<phase, conn, connection_mode, app_context, native_available,
                   probes, handle, releases, norm, office, loop>>

\* Alternate that makes the transport of a successful alternate attempt the
\* active one.
AlternateSwitchesMode ==
    /\ call.pc = "alternate"
    /\ LET mode == app_context.connection_mode
           alt == alternate_mode
       IN /\ (alt = "http" /\ CLICKHOUSE_HTTP_AVAILABLE) \/ (alt = "native" /\ native_available)
          /\ \E outcome \in OutcomesOf(alt) :
                LET a == AlternateAttempt(alt, outcome, call.query, call.params,
                                          call.max_rows)
                IN /\ call' =
                        [call EXCEPT !.pc = "done",
                                     !.ops = Append(call.ops, Op("alternate", alt, "request")),
                                     !.outcomes = Append(call.outcomes, outcome),
                                     !.statements =
                                         Append(call.statements,
                                                StatementHandedTo(alt, call.query,
                                                                  call.params)),
                                     !.ret = IF a.ok THEN ReturnText(a.result)
                                             ELSE BothFailedError(mode, call.connection_error,
                                                                  a.error)]
                   /\ app_context' = IF a.ok
                                     THEN [app_context EXCEPT !.connection_mode = alt]
                                     ELSE app_context
    /\ UNCHANGED <<phase, conn, connection_mode, native_available,
                   probes, handle, releases, norm, office, loop>>

\* Step 2 of execute_db_query: the attempt on the other transport.
Alternate ==
    /\ call.pc = "alternate"
    /\ LET mode == app_context.connection_mode
           alt == alternate_mode
           failed(ops, outcomes, statements, temporary, alt_error) ==
               [call EXCEPT !.pc = "done", !.ops = ops, !.outcomes = outcomes,
                            !.statements = statements, !.temporary = temporary,
                            !.ret = BothFailedError(mode, call.connection_error, alt_error)]
       IN IF (alt = "http" /\ CLICKHOUSE_HTTP_AVAILABLE) \/ (alt = "native" /\ native_available)
          THEN \E outcome \in OutcomesOf(alt) :
                LET a == AlternateAttempt(alt, outcome, call.query, call.params,
                                          call.max_rows)
                    sent == alt # "http" \/ HttpRequestSent(call.query, call.params)
                    ops == IF sent
                           THEN Append(call.ops,
                                       Op("alternate", alt,
                                          IF alt = "http" THEN "request" ELSE "temporary"))
                           ELSE call.ops
                    outcomes == IF sent THEN Append(call.outcomes, outcome)
                                ELSE call.outcomes
                    statements ==
                        IF sent
                        THEN Append(call.statements,
                                    StatementHandedTo(alt, call.query, call.params))
                        ELSE call.statements
                    temporary == IF alt = "native" THEN TemporaryClient(a.ok) ELSE "none"
                IN call' =
                    IF a.ok
                    THEN [call EXCEPT !.pc = "done", !.ops = ops, !.outcomes = outcomes,
                                      !.statements = statements,
                                      !.temporary = temporary,
                                      !.ret = ReturnText(a.result)]
                    ELSE failed(ops, outcomes, statements, temporary, a.error)
          ELSE call' = failed(call.ops, call.outcomes, call.statements, "none",
                              <<Lit("Alternate connection mode "), Lit(alt),
                                Lit(" not available")>>)
    /\ UNCHANGED <<phase, conn, connection_mode, app_context, native_available,
                   probes, handle, releases, norm, office, loop>>

\* The call returns its text to the tool framework.
Return ==
    /\ call.pc = "done"
    /\ call' = IdleCall
    /\ UNCHANGED <<phase, conn, connection_mode, app_context, native_available,
                   probes, handle, releases, norm, office, loop>>

(***************************************************************************)
(* The normalizers on their own: every raw result the server can answer,   *)
(* with every max_rows the boundary lets through.                          *)
(***************************************************************************)
NormQueries == {KwSelect, KwSelect \o <<" ", "1">>, KwShow, KwShow \o BodyTables, KwDesc}
NormMaxRows == {m \in MaxRowsInputs : MaxRowsAccepted(m)}

NormInput(fn, input, query_lower, max_rows) ==
    [fn |-> fn, input |-> input, query_lower |-> query_lower, max_rows |-> max_rows,
     done |-> FALSE, out |-> EmptyResult, formatted |-> FALSE, text |-> <<>>]

NormInputs ==
    { NormInput("native", rs, q, m) :
        rs \in NativeResultSets, q \in NormQueries, m \in NormMaxRows }
    \cup { NormInput("http", r, <<>>, m) : r \in HttpResponses, m \in NormMaxRows }

NormInit ==
    /\ phase = "uninitialized"
    /\ conn = NoConnection
    /\ connection_mode = "None"
    /\ app_context = AppContext
    /\ native_available = TRUE
    /\ probes = <<>>
    /\ handle = "none"
    /\ releases = 0
    /\ call = IdleCall
    /\ norm \in NormInputs
    /\ office = OfficeAbsent
    /\ loop = LoopAbsent

NormNative ==
    /\ norm.fn = "native" /\ ~norm.done
    /\ norm' = [norm EXCEPT !.done = TRUE,
                            !.out = process_native_result(norm.input, norm.query_lower,
                                                          norm.max_rows)]
    /\ UNCHANGED <<phase, conn, connection_mode, app_context, native_available,
                   probes, handle, releases, call, office, loop>>

NormHttp ==
    /\ norm.fn = "http" /\ ~norm.done
    /\ norm' = [norm EXCEPT !.done = TRUE,
                            !.out = process_clickhouse_response(norm.input, norm.max_rows)]
    /\ UNCHANGED <<phase, conn, connection_mode, app_context, native_available,
                   probes, handle, releases, call, office, loop>>

\* The normalized result is rendered, as lines 167-169 of main.py do with the
\* result of the attempt.
NormFormat ==
    /\ norm.fn \in {"native", "http"} /\ norm.done /\ ~norm.formatted
    /\ norm' = [norm EXCEPT !.formatted = TRUE, !.text = format_query_results(norm.out)]
    /\ UNCHANGED <<phase, conn, connection_mode, app_context, native_available,
                   probes, handle, releases, call, office, loop>>

NormNext == NormNative \/ NormHttp \/ NormFormat

NormSpec == NormInit /\ [][NormNext]_vars

(***************************************************************************)
(* The parameter substitution on its own.                                  *)
(***************************************************************************)
SubstInput(query, params) ==
    [fn |-> "subst", input |-> [query |-> query, params |-> params],
     query_lower |-> <<>>, max_rows |-> 0, done |-> FALSE,
     out |-> [raised |-> FALSE, query |-> <<>>], formatted |-> FALSE, text |-> <<>>]

SubstInit ==
    /\ phase = "uninitialized"
    /\ conn = NoConnection
    /\ connection_mode = "None"
    /\ app_context = AppContext
    /\ native_available = TRUE
    /\ probes = <<>>
    /\ handle = "none"
    /\ releases = 0
    /\ call = IdleCall
    /\ norm \in { SubstInput(q, m) : q \in QueryTexts, m \in ParamMappings }
    /\ office = OfficeAbsent
    /\ loop = LoopAbsent

Substitute ==
    /\ norm.fn = "subst" /\ ~norm.done
    /\ norm' = [norm EXCEPT !.done = TRUE,
                            !.out = SubstituteParams(norm.input.query, norm.input.params)]
    /\ UNCHANGED <<phase, conn, connection_mode, app_context, native_available,
                   probes, handle, releases, call, office, loop>>

SubstNext == Substitute

SubstSpec == SubstInit /\ [][SubstNext]_vars

(***************************************************************************)
(* mcp_server_office.py: run_select_query.  Each caller makes one call; its *)
(* query is a task of QUERY_EXECUTOR: queued, running on a worker,          *)
(* finished, or cancelled.                                                  *)
(***************************************************************************)
SELECT_QUERY_TIMEOUT_SECS == 30

\* The variables of the clickhouse_mcp server.
serverVars ==
    <<phase, conn, connection_mode, app_context, native_available, probes,
      handle, releases, call, norm>>

\* How execute_query ends: it returns the rows, its except returns
\* {"error": str(err)}, or create_clickhouse_client (outside the try) raises.
TaskOutcomes == {"rows", "error", "raised"}

\* What run_select_query returns.
QueryRows == [kind |-> "result"]
StructuredError(message) == [kind |-> "error", status |-> "error", message |-> message]
QueryFailed == StructuredError(<<Lit("Query failed: "), Err("server exception")>>)
QueryTimedOut ==
    StructuredError(<<Lit("Query timed out after "), Num(SELECT_QUERY_TIMEOUT_SECS),
                      Lit(" seconds")>>)
UnexpectedError == StructuredError(<<Lit("Unexpected error: "), Err("connection refused")>>)

\* ResultOf without the outer except: the exception future.result re-raises
\* leaves run_select_query.
ResultOfUncaught(outcome) ==
    IF outcome = "rows" THEN QueryRows
    ELSE IF outcome = "error" THEN QueryFailed
    ELSE [kind |-> "raised"]

\* Lines 314-341: what the caller returns for a task that finished.
ResultOf(outcome) ==
    IF outcome = "rows" THEN QueryRows
    ELSE IF outcome = "error" THEN QueryFailed
    ELSE UnexpectedError

OfficeInit ==
    /\ phase = "absent"
    /\ conn = NoConnection
    /\ connection_mode = "None"
    /\ app_context = AppContext
    /\ native_available = FALSE
    /\ probes = <<>>
    /\ handle = "none"
    /\ releases = 0
    /\ call = IdleCall
    /\ norm = NoNorm
    /\ office = [OfficeAbsent EXCEPT !.active = TRUE]
    /\ loop = LoopAbsent

Busy == { c \in Callers : office.task[c] = "running" }

\* future = QUERY_EXECUTOR.submit(execute_query, query)
Submit(c) ==
    /\ office.active
    /\ office.pc[c] = "idle"
    /\ office' = [office EXCEPT !.pc[c] = "waiting", !.task[c] = "queued",
                                !.queue = Append(@, c)]
    /\ UNCHANGED <<serverVars, loop>>

\* A free worker of the pool takes the oldest task of the queue.
WorkerStart(c) ==
    /\ office.queue # <<>>
    /\ Head(office.queue) = c
    /\ Cardinality(Busy) < MaxWorkers
    /\ office' = [office EXCEPT !.task[c] = "running", !.queue = Tail(@)]
    /\ UNCHANGED <<serverVars, loop>>

\* execute_query ends on its worker (it need not: a query can run for ever).
WorkerFinish(c) ==
    /\ office.task[c] = "running"
    /\ \E outcome \in TaskOutcomes :
          office' = [office EXCEPT !.task[c] = "finished", !.outcome[c] = outcome]
    /\ UNCHANGED <<serverVars, loop>>

\* future.result(timeout=...) returns or re-raises what the task did.
ResultReady(c) ==
    /\ office.pc[c] = "waiting"
    /\ office.task[c] = "finished"
    /\ office' = [office EXCEPT !.pc[c] = "returned",
                                !.ret[c] = ResultOf(office.outcome[c])]
    /\ UNCHANGED <<serverVars, loop>>

\* Timeout with a deadline that runs from the start of the task on a worker:
\* a call whose task is still queued keeps waiting.
TimeoutOnceStarted(c) ==
    /\ office.pc[c] = "waiting"
    /\ office.task[c] = "running"
    /\ office' = [office EXCEPT !.pc[c] = "returned", !.ret[c] = QueryTimedOut]
    /\ UNCHANGED <<serverVars, loop>>

\* future.result raises TimeoutError: future.cancel() takes a task that has not
\* started out of the queue and leaves a running one alone.
Timeout(c) ==
    /\ office.pc[c] = "waiting"
    /\ office.task[c] \in {"queued", "running"}
    /\ office' = [office EXCEPT
                    !.pc[c] = "returned",
                    !.ret[c] = QueryTimedOut,
                    !.task[c] = IF @ = "queued" THEN "cancelled" ELSE @,
                    !.queue = SelectSeq(@, LAMBDA d : d # c)]
    /\ UNCHANGED <<serverVars, loop>>

OfficeNext ==
    \/ \E c \in Callers : Submit(c)
    \/ \E c \in Callers : WorkerStart(c)
    \/ \E c \in Callers : WorkerFinish(c)
    \/ \E c \in Callers : ResultReady(c)
    \/ \E c \in Callers : Timeout(c)

OfficeSpec == OfficeInit /\ [][OfficeNext]_vars

\* future.result(timeout) wakes up when the task is done and when the deadline
\* expires, whatever the workers do.
OfficeFairSpec ==
    /\ OfficeSpec
    /\ \A c \in Callers : WF_vars(ResultReady(c)) /\ WF_vars(Timeout(c))

(***************************************************************************)
(* main.py: clickhouse_execute_read calls issued concurrently.  Each call  *)
(* is a coroutine of the one event loop; loop.running is the coroutine the *)
(* loop is executing (0: none), loop.pc the position of each call.         *)
(***************************************************************************)
\* LoopFree for a call that awaits its request: the loop runs another call
\* while the request is in flight.
LoopFreeDuringRequest ==
    IF loop.running = 0 THEN TRUE ELSE loop.pc[loop.running] = "on_handle"

\* The loop takes the next call when the coroutine it runs has returned:
\* between its entry and its return execute_db_query awaits nothing, and
\* conn.connection.execute is a blocking call.
LoopFree == loop.running = 0

\* The server after a startup that ended with native as the active transport.
LoopInit ==
    /\ phase = "running"
    /\ conn = DatabaseConnection("client", "native")
    /\ connection_mode = "native"
    /\ app_context = [connection |-> DatabaseConnection("client", "native"),
                      connection_mode |-> "native"]
    /\ native_available = TRUE
    /\ probes = <<Probe("http", "get", "connect_failed"), Probe("native", "execute", "ok")>>
    /\ handle = "open"
    /\ releases = 0
    /\ call = IdleCall
    /\ norm = NoNorm
    /\ office = OfficeAbsent
    /\ loop = [LoopAbsent EXCEPT !.active = TRUE]

\* A request for the tool arrives: the framework creates the call.
Issue(c) ==
    /\ loop.active
    /\ loop.pc[c] = "none"
    /\ loop' = [loop EXCEPT !.pc[c] = "pending"]
    /\ UNCHANGED <<serverVars, office>>

\* The loop starts a pending call.
Schedule(c) ==
    /\ LoopFree
    /\ loop.pc[c] = "pending"
    /\ loop' = [loop EXCEPT !.running = c, !.pc[c] = "entered"]
    /\ UNCHANGED <<serverVars, office>>

\* Validation rejects the statement.
Reject(c) ==
    /\ loop.running = c
    /\ loop.pc[c] = "entered"
    /\ loop' = [loop EXCEPT !.pc[c] = "returning"]
    /\ UNCHANGED <<serverVars, office>>

\* conn.connection.execute(query, params) begins on the shared client.
StartRequest(c) ==
    /\ loop.running = c
    /\ loop.pc[c] = "entered"
    /\ loop' = [loop EXCEPT !.pc[c] = "on_handle"]
    /\ UNCHANGED <<serverVars, office>>

\* conn.connection.execute returns or raises.
EndRequest(c) ==
    /\ loop.running = c
    /\ loop.pc[c] = "on_handle"
    /\ \E ok \in BOOLEAN :
          loop' = [loop EXCEPT !.pc[c] = IF ok THEN "returning" ELSE "alternate"]
    /\ UNCHANGED <<serverVars, office>>

\* The attempt over HTTP, which does not use the shared client.
AlternateRequest(c) ==
    /\ loop.running = c
    /\ loop.pc[c] = "alternate"
    /\ loop' = [loop EXCEPT !.pc[c] = "returning"]
    /\ UNCHANGED <<serverVars, office>>

\* The coroutine returns its text, and the loop is free again.
ReturnCall(c) ==
    /\ loop.running = c
    /\ loop.pc[c] = "returning"
    /\ loop' = [loop EXCEPT !.running = 0, !.pc[c] = "returned"]
    /\ UNCHANGED <<serverVars, office>>

LoopNext ==
    \/ \E c \in Callers : Issue(c)
    \/ \E c \in Callers : Schedule(c)
    \/ \E c \in Callers : Reject(c)
    \/ \E c \in Callers : StartRequest(c)
    \/ \E c \in Callers : EndRequest(c)
    \/ \E c \in Callers : AlternateRequest(c)
    \/ \E c \in Callers : ReturnCall(c)

LoopSpec == LoopInit /\ [][LoopNext]_vars

Next ==
    \/ HttpGet
    \/ HttpExecute
    \/ NativeProbe
    \/ NativeSkipped
    \/ Shutdown
    \/ ToolCall
    \/ Primary
    \/ Alternate
    \/ Return

Spec == Init /\ [][Next]_vars

(***************************************************************************)
(* main.py: execute_db_query on its own, for each transport the startup    *)
(* probe can find working: app_context, which the function reads, is the   *)
(* native connection or the HTTP connection built at lifespan_code.py      *)
(* 221-231.                                                                *)
(***************************************************************************)
GatewayInit ==
    /\ phase = "running"
    /\ \E mode \in {"http", "native"} :
          /\ conn = DatabaseConnection(IF mode = "http" THEN "http_conn" ELSE "client", mode)
          /\ connection_mode = mode
          /\ app_context = [connection |-> conn, connection_mode |-> mode]
          /\ probes = IF mode = "http"
                      THEN <<Probe("http", "get", "ok"), Probe("http", "execute", "ok")>>
                      ELSE <<Probe("http", "get", "connect_failed"),
                             Probe("native", "execute", "ok")>>
          /\ handle = IF mode = "native" THEN "open" ELSE "none"
    /\ native_available \in BOOLEAN
    /\ releases = 0
    /\ call = IdleCall
    /\ norm = NoNorm
    /\ office = OfficeAbsent
    /\ loop = LoopAbsent

GatewayNext == ToolCall \/ Primary \/ Alternate \/ Return

GatewaySpec == GatewayInit /\ [][GatewayNext]_vars

\* The two servers of the repository, each a program of its own: a behaviour is
\* a run of one of them.
ToolsSpec == (Init \/ OfficeInit) /\ [][Next \/ OfficeNext]_vars


(***************************************************************************)
(* Properties.                                                             *)
(***************************************************************************)
InCall == call.pc # "idle" /\ call.entered
Range(f) == { f[i] : i \in DOMAIN f }

\* C1: a statement that begins with select, show, describe, desc or explain, in
\* any letter case and with any surrounding whitespace, is not rejected by the
\* prefix validation; one that begins with insert, update, delete, drop, alter
\* or create returns the validation error and the call performs no transport
\* operation.
C1_PrefixValidation ==
    InCall =>
        /\ call.input.kw \in ReadKeywords => call.ret # PrefixError(call.query)
        /\ call.input.kw \in WriteKeywords =>
              /\ call.pc = "done"
              /\ call.ret = PrefixError(call.query)
              /\ call.ops = <<>>

C1_Witness ==
    /\ InCall
    /\ call.input.kw \in WriteKeywords
    /\ call.input.case = "upper"
    /\ call.input.lead # <<>>
    /\ call.ret = PrefixError(call.query)
    /\ app_context.connection.present

\* C2: for a statement with an allowed prefix, a ";" anywhere but at the last
\* character of the statement fails validation with no transport called, and a
\* statement whose only ";" is its last character passes, also when whitespace
\* that trimming removes surrounds the statement.
C2_SemicolonValidation ==
    (InCall /\ call.input.kw \in ReadKeywords) =>
        LET statement == Strip(call.query)
            inner == Contains(SliceTo(statement, -1), ";")
        IN /\ inner => /\ call.pc = "done"
                       /\ call.ret = MultipleError(call.query)
                       /\ call.ops = <<>>
           /\ (~inner /\ statement[Len(statement)] = ";") =>
                  call.ret # MultipleError(call.query)

ProbeOk(transport, request) ==
    \E i \in DOMAIN probes : probes[i] = Probe(transport, request, "ok")
HttpProbeSucceeded == ProbeOk("http", "get") /\ ProbeOk("http", "execute")
NativeProbeSucceeded == ProbeOk("native", "execute")

\* C3: when the startup probe has finished, the state holds the first transport,
\* HTTP then native, whose probe connected and executed SELECT 1: CONNECTED(http)
\* with a handle that get_connection returns if the HTTP probe succeeded,
\* CONNECTED(native) if HTTP failed and native succeeded, none otherwise.
C3_StartupState ==
    phase = "running" =>
        /\ HttpProbeSucceeded =>
              /\ app_context.connection_mode = "http"
              /\ get_connection.present
              /\ get_connection.connection # "None"
              /\ get_connection.connection_type = "http"
        /\ (~HttpProbeSucceeded /\ NativeProbeSucceeded) =>
              /\ app_context.connection_mode = "native"
              /\ get_connection.present
              /\ get_connection.connection_type = "native"
        /\ (~HttpProbeSucceeded /\ ~NativeProbeSucceeded) =>
              /\ app_context.connection_mode = "None"
              /\ ~get_connection.present

\* C4: the startup probes HTTP before native, probes native only if the HTTP
\* probe did not succeed, and records a transport as the active one only after
\* its SELECT 1 returned: a transport that connected but whose SELECT 1 failed is
\* never the active one.
C4_ProbeOrder ==
    /\ \A i, j \in DOMAIN probes :
          (probes[i].transport = "http" /\ probes[j].transport = "native") => i < j
    /\ (\E i \in DOMAIN probes : probes[i].transport = "native") => ~HttpProbeSucceeded
    /\ \A t \in {"http", "native"} :
          (app_context.connection_mode = t \/ app_context.connection.connection_type = t) =>
              /\ ProbeOk(t, "execute")
              /\ \A i \in DOMAIN probes :
                    probes[i].transport = t => probes[i].result = "ok"

C4_Witness ==
    /\ phase = "running"
    /\ probes = <<Probe("http", "get", "ok"), Probe("http", "execute", "query_failed"),
                  Probe("native", "execute", "ok")>>
    /\ app_context.connection_mode = "native"

\* A statement that passes validation, told from its pieces.
ValidStatement(input) ==
    /\ input.kw \in ReadKeywords
    /\ ~Contains(SliceTo(input.body \o input.trail, -1), ";")

\* C5: with no transport established at startup, every call with a valid
\* read-only statement returns the connectivity error and performs no transport
\* operation.
C5_FailFast ==
    (InCall /\ ~app_context.connection.present /\ ValidStatement(call.input)) =>
        /\ call.pc = "done"
        /\ call.ret = ConnectError
        /\ call.ops = <<>>
        /\ call.outcomes = <<>>

C5_Witness ==
    /\ phase = "running"
    /\ InCall
    /\ ~app_context.connection.present
    /\ ValidStatement(call.input)
    /\ call.ret = ConnectError

\* The server refused or failed the request, or answered what cannot be
\* normalized.
OutcomeFails(o) ==
    \/ o.kind = "error"
    \/ o.kind = "returned" /\ "ctype" \in DOMAIN o.value /\ o.value.json_ok
       /\ ~o.value.json.is_object
MessageOf(o) == IF o.kind = "error" THEN Err(o.error) ELSE Err("TypeError")

Finished == call.pc = "done" /\ call.entered
PrimaryFailed == Len(call.outcomes) >= 1 /\ OutcomeFails(call.outcomes[1])
AlternateSucceeded == Len(call.outcomes) = 2 /\ ~OutcomeFails(call.outcomes[2])
AlternateFailed == Len(call.outcomes) = 2 /\ OutcomeFails(call.outcomes[2])

\* The parts of the lines of a text.
PartsOf(text) ==
    UNION { Range(text[i].line) : i \in {j \in DOMAIN text : "line" \in DOMAIN text[j]} }

\* C6: when the attempt on the active transport fails and the attempt on the
\* other transport succeeds, the text returned is the formatted result the other
\* transport gives as the active one (where the formatter renders it), with no
\* trace of the primary error.
C6_AlternateResult ==
    LET result == PrimaryAttempt(call.ops[2].transport, call.outcomes[2], call.query,
                                 call.params, call.max_rows).result
    IN (Finished /\ PrimaryFailed /\ AlternateSucceeded /\ ~FormatterRaises(result)) =>
          /\ call.ret = format_query_results(result)
          /\ PartsOf(call.ret) \cap Range(call.connection_error) = {}
          /\ \A part \in PartsOf(call.ret) : "err" \notin DOMAIN part

C6_Witness ==
    /\ Finished /\ PrimaryFailed /\ AlternateSucceeded
    /\ call.ops[1].transport = "native"
    /\ call.ops[2].transport = "http"
    /\ call.max_rows \in 1..MaxSmallRows
    /\ Len(call.ret) > 3

\* C7: when both attempts fail, the text returned holds the primary failure
\* message and the alternate failure message, whole, each under its label.
C7_BothErrors ==
    (Finished /\ PrimaryFailed /\ (AlternateFailed \/ Len(call.outcomes) = 1)) =>
        /\ Len(call.ret) = 2
        /\ \A i \in 1..2 : "line" \in DOMAIN call.ret[i]
        /\ LET first == call.ret[1].line
               second == call.ret[2].line
           IN /\ Lit("Primary connection (") \in Range(first)
              /\ first[Len(first)] = MessageOf(call.outcomes[1])
              /\ second[1] = Lit("Alternate connection error: ")
              /\ Len(second) > 1
              /\ AlternateFailed => second[Len(second)] = MessageOf(call.outcomes[2])

C7_Witness ==
    /\ Finished /\ PrimaryFailed /\ AlternateFailed
    /\ call.outcomes[1].kind = "error" /\ call.outcomes[2].kind = "error"
    /\ call.outcomes[1].error # call.outcomes[2].error

\* C8: a call executes the primary transport at most once and the alternate at
\* most once; the alternate is attempted exactly when the primary attempt
\* failed, on the transport other than the active one, never after a primary
\* success.
C8_OneFallback ==
    InCall =>
        /\ Len(call.ops) <= 2
        /\ Len(call.ops) = Len(call.outcomes)
        /\ Len(call.ops) >= 1 =>
              /\ call.ops[1].role = "primary"
              /\ call.ops[1].transport = app_context.connection_mode
        /\ Len(call.ops) = 2 =>
              /\ call.ops[2].role = "alternate"
              /\ call.ops[2].transport # call.ops[1].transport
              /\ call.ops[2].transport \in {"http", "native"}
              /\ PrimaryFailed
        /\ (call.pc = "done" /\ PrimaryFailed) =>
              (Len(call.ops) = 2 \/ ~HttpRequestSent(call.query, call.params))
        /\ (call.pc = "alternate") => (Len(call.ops) = 1 /\ PrimaryFailed)

C8_Witness ==
    /\ Finished
    /\ Len(call.ops) = 2
    /\ call.ops[1] = Op("primary", "native", "shared")
    /\ call.ops[2] = Op("alternate", "http", "request")

\* C9: for every raw result shape and every max_rows in 1..100, a successful
\* normalized result has at most max_rows rows of data.
C9_DataWithinMaxRows ==
    (norm.done /\ norm.max_rows \in 1..MaxRowsLimit /\ norm.out.success) =>
        Len(norm.out.data) <= norm.max_rows

C9_Witness ==
    /\ norm.done
    /\ norm.fn = "http"
    /\ norm.max_rows \in 1..MaxRowsLimit
    /\ norm.out.success
    /\ norm.out.row_count > norm.max_rows
    /\ Len(norm.out.data) = norm.max_rows

\* C10: the tool boundary bounds max_rows to 1..100: no value below 1 and none
\* above 100 reaches execute_db_query and the normalizers.
C10_MaxRowsBounded ==
    InCall => call.max_rows \in 1..MaxRowsLimit

\* The rows the server produced, as the transport delivers them: the rows of a
\* native list (a value that is no list is one row, None is no row), the data
\* of a JSON object, the newline-terminated lines of a text body.
RawLines(text) ==
    IF text = <<>> THEN <<>>
    ELSE Split(IF text[Len(text)] = "\n" THEN SubSeq(text, 1, Len(text) - 1) ELSE text,
               "\n")

RawIsList(n) ==
    IF n.fn = "native" THEN n.input.shape = "list"
    ELSE n.input.ctype = "json" /\ n.input.json_ok /\ n.input.json.is_object
         /\ n.input.json.has_data

RawRows(n) ==
    IF n.fn = "native"
    THEN IF n.input.shape = "list" THEN n.input.rows
         ELSE IF n.input.shape = "value" THEN <<PyStr(n.input.text)>>
         ELSE <<>>
    ELSE IF n.input.ctype = "json" /\ n.input.json_ok
         THEN IF n.input.json.is_object /\ n.input.json.has_data
              THEN n.input.json.data ELSE <<>>
         ELSE [i \in DOMAIN RawLines(n.input.text) |-> PyStr(RawLines(n.input.text)[i])]

\* C11: for every successful normalized result, row_count is the number of rows
\* of the raw transport result before the truncation, row_count >= len(data),
\* and data is the first min(row_count, max_rows) raw rows in order.
C11_RowCount ==
    (norm.done /\ norm.out.success) =>
        /\ norm.out.row_count = Len(RawRows(norm))
        /\ norm.out.row_count >= Len(norm.out.data)
        /\ Len(norm.out.data) = Min(norm.out.row_count, norm.max_rows)
        /\ (RawIsList(norm) /\ norm.out.column_names # <<Name("value")>>) =>
              norm.out.data = SubSeq(RawRows(norm), 1, Len(norm.out.data))

\* The text with every placeholder of the mapping that stands in it replaced,
\* at its place, by the bound value as it is written in a query.
RECURSIVE Simultaneous(_, _)
Simultaneous(query, params) ==
    IF query = <<>> THEN <<>>
    ELSE LET here == { i \in DOMAIN params :
                         StartsWith(query, Placeholder(params[i].key)) }
         IN IF here = {}
            THEN <<Head(query)>> \o Simultaneous(Tail(query), params)
            ELSE LET item == params[CHOOSE i \in here : TRUE]
                 IN Rendered(item.value)
                    \o Simultaneous(SubSeq(query, Len(Placeholder(item.key)) + 1,
                                           Len(query)), params)

StrKeysOnly(params) == \A i \in DOMAIN params : params[i].key.kind = "str"
PlaceholderFree(query, params) ==
    \A i \in DOMAIN params : ~ContainsText(query, Placeholder(params[i].key))

\* C12: the substitution leaves a query with none of the mapping's placeholders
\* unchanged, and applying it again changes nothing; every occurrence of a
\* placeholder that is in the text is replaced by the bound value, quoted for a
\* string and plain otherwise; a parameter whose placeholder is absent is
\* skipped without error.
C12_Substitution ==
    (norm.fn = "subst" /\ norm.done /\ StrKeysOnly(norm.input.params)) =>
        LET query == norm.input.query
            params == norm.input.params
        IN /\ ~norm.out.raised
           /\ PlaceholderFree(query, params) =>
                 /\ norm.out.query = query
                 /\ SubstituteParams(norm.out.query, params).query = norm.out.query
           /\ norm.out.query = Simultaneous(query, params)

\* The substitution of the call raised: its failure is the error of an attempt.
SubstitutionRaised ==
    /\ InCall
    /\ Lit("Error processing query parameters: ")
           \in PartsOf(call.ret) \cup Range(call.connection_error)

\* C13: when the parameter substitution raises, the call fails at once: it
\* returns a failure that carries the substitution error and performs no
\* transport operation for the query, no HTTP request and no attempt on the
\* native transport.
C13_SubstitutionFailsFast ==
    SubstitutionRaised =>
        /\ call.pc = "done"
        /\ Range(SubstitutionError) \subseteq PartsOf(call.ret)
        /\ call.ops = <<>>

\* C14: between the end of the startup and the shutdown no step changes the
\* connection state (the active transport, its handle, the database), whatever
\* a call does: rejection, primary success, alternate success or failure of
\* both; a successful alternate attempt does not switch the active transport.
C14_CallsKeepConnection ==
    [][(phase = "running" /\ phase' = "running") =>
          /\ app_context' = app_context
          /\ handle' = handle
          /\ releases' = releases]_vars

C14_Witness ==
    /\ phase = "running"
    /\ Finished /\ PrimaryFailed /\ AlternateSucceeded
    /\ call.ops[2].transport = "http"
    /\ app_context.connection_mode = "native"
    /\ app_context.connection = DatabaseConnection("client", "native")
    /\ handle = "open"

\* C15: the shutdown releases the native handle exactly once when native is the
\* active transport and performs no release otherwise (HTTP holds no handle);
\* in every case, also when the release raises, the state after the shutdown
\* has no connection and no connection mode, and a call made afterwards with a
\* valid statement fails with the connectivity error.
C15_Shutdown ==
    /\ phase # "closed" => releases = 0
    /\ phase = "closed" =>
          /\ releases = (IF NativeProbeSucceeded THEN 1 ELSE 0)
          /\ HttpProbeSucceeded => (releases = 0 /\ handle = "none")
          /\ ~app_context.connection.present
          /\ app_context.connection_mode = "None"
          /\ get_connection = NoConnection
          /\ (InCall /\ ValidStatement(call.input)) =>
                /\ call.pc = "done"
                /\ call.ret = ConnectError
                /\ call.ops = <<>>

C15_Witness ==
    /\ phase = "closed"
    /\ NativeProbeSucceeded
    /\ releases = 1
    /\ handle = "open"
    /\ InCall /\ ValidStatement(call.input)
    /\ call.ret = ConnectError

\* A text handed back to the tool framework: lines, and no exception.
IsText(ret) ==
    /\ ret # <<>>
    /\ \A i \in DOMAIN ret : "raises" \notin DOMAIN ret[i]

\* C16: no tool invocation lets an exception out: whatever the input and the
\* transports do (validation failure, no connection, transport exception,
\* normalizer exception, formatter exception, worker timeout),
\* clickhouse_execute_read returns a text and run_select_query returns a result
\* or a structured error.
C16_NoEscape ==
    /\ Finished => IsText(call.ret)
    /\ \A c \in Callers :
          office.pc[c] = "returned" =>
              \/ office.ret[c] = QueryRows
              \/ /\ office.ret[c].kind = "error"
                 /\ office.ret[c].status = "error"
                 /\ office.ret[c].message # <<>>

C16_Witness ==
    /\ Finished
    /\ PrimaryFailed
    /\ Len(call.outcomes) = 2
    /\ FormatterRaises(PrimaryAttempt("http", call.outcomes[2], call.query, call.params,
                                      call.max_rows).result)
    /\ call.ret[1] = Line(<<Lit("Database error: "), Err("AttributeError")>>)

OnSharedHandle == { c \in Callers : loop.pc[c] = "on_handle" }

\* C17: with native as the active transport, however many calls are issued
\* concurrently and however they are scheduled, at most one call at a time is
\* executing a request on the shared native handle.
C17_OneRequestOnHandle == Cardinality(OnSharedHandle) <= 1

C17_Witness ==
    /\ app_context.connection_mode = "native"
    /\ Cardinality(OnSharedHandle) = 1
    /\ \A c \in Callers \ OnSharedHandle : loop.pc[c] = "pending"

Abandoned(c) == office.pc[c] = "returned" /\ office.task[c] \in {"running", "cancelled"}

\* C18: every run_select_query call eventually returns to its caller, for any
\* number of concurrent calls and also when every worker of the pool is held
\* by a query that never finishes; a call that returns before its query has
\* completed returns the structured timeout error, and its query, if it was
\* running, is left running.
C18_CallReturns ==
    /\ \A c \in Callers : (office.pc[c] = "waiting") ~> (office.pc[c] = "returned")
    /\ [](\A c \in Callers : Abandoned(c) => office.ret[c] = QueryTimedOut)
    /\ [][\A c \in Callers :
            (office.pc[c] = "waiting" /\ office.task[c] = "running"
                /\ office'.pc[c] = "returned" /\ office'.ret[c] = QueryTimedOut)
            => office'.task[c] = "running"]_vars

\* Every worker is held by a query, one of them abandoned by its caller, and a
\* call whose query never got a worker has returned the timeout error.
C18_Witness ==
    /\ Cardinality(Busy) = MaxWorkers
    /\ \E c \in Busy : Abandoned(c) /\ office.ret[c] = QueryTimedOut
    /\ \E c \in Callers :
          /\ office.task[c] = "cancelled"
          /\ office.pc[c] = "returned"
          /\ office.ret[c] = QueryTimedOut

\* C19: process_native_result applied to the native result set [1] for the
\* query "SELECT 1" yields a successful result with exactly one row, exactly
\* one column named result, and the value 1 (row_count 1).
C19_SelectOne ==
    (/\ norm.done
     /\ norm.fn = "native"
     /\ norm.input.shape = "list"
     /\ norm.input.rows = <<PyInt(1)>>
     /\ norm.max_rows \in 1..MaxRowsLimit
     /\ norm.query_lower = KwSelect \o <<" ", "1">>) =>
        /\ norm.out.success
        /\ norm.out.row_count = 1
        /\ norm.out.column_names = <<Name("result")>>
        /\ norm.out.data \in {<<PyList(<<PyInt(1)>>)>>, <<PyTuple(<<PyInt(1)>>)>>}

\* The result was read from a JSON body.
FromJson(n) ==
    IF n.fn = "http" THEN n.input.ctype = "json" /\ n.input.json_ok ELSE FALSE

RowKinds(result) == { result.data[i].kind : i \in DOMAIN result.data }

\* C20: in a successful normalized result whose rows are positional (the rows
\* of an HTTP TSV body, native tuple or list rows, those of show, describe and
\* desc included), the number of column names is the width of every row of
\* data; when the rows are mappings, column_names is the keys of the first row
\* in their order, or the names of the server's metadata.
C20_ColumnNames ==
    (norm.done /\ norm.out.success /\ norm.out.data # <<>>) =>
        /\ (~FromJson(norm) /\ RowKinds(norm.out) \subseteq {"list", "tuple"}) =>
              \A i \in DOMAIN norm.out.data :
                  PyLen(norm.out.data[i]) = Len(norm.out.column_names)
        /\ RowKinds(norm.out) = {"dict"} =>
              \/ norm.out.column_names = norm.out.data[1].keys
              \/ /\ FromJson(norm)
                 /\ norm.input.json.has_meta
                 /\ norm.out.column_names = norm.input.json.meta

IsRow(l) == "cells" \in DOMAIN l
IsSeparator(l) == "separator" \in DOMAIN l

\* C21: for a result with success and data that is not empty, the formatter
\* returns a table whose last line is "Total rows: <row_count> (showing first
\* <len(data)>)", preceded by a header row of the column names, when there are
\* any, and exactly len(data) data rows; for a result without success it
\* returns the one line "Error executing query: <error>"; for a result with
\* success and empty or absent data, "Query executed. Rows returned:
\* <row_count>".
C21_FormattedText ==
    norm.formatted =>
        LET r == norm.out
            text == norm.text
            n == Len(text)
            names == r.column_names
            h == IF names = <<>> THEN 0 ELSE 2
        IN IF ~r.success
           THEN text = <<Line(<<Lit("Error executing query: ")>> \o r.error)>>
           ELSE IF ~r.has_data \/ r.data = <<>>
           THEN text = <<Line(<<Lit("Query executed. Rows returned: "), Num(r.row_count)>>)>>
           ELSE /\ n = Len(r.data) + h + 3
                /\ text[n] = Line(<<Lit("Total rows: "), Num(r.row_count),
                                    Lit(" (showing first "), Num(Len(r.data)), Lit(")")>>)
                /\ IsSeparator(text[1]) /\ IsSeparator(text[n - 1])
                /\ names # <<>> =>
                      /\ IsRow(text[2]) /\ IsSeparator(text[3])
                      /\ Len(text[2].cells) = Len(names)
                      /\ \A i \in DOMAIN names : text[2].cells[i].name = names[i]
                /\ \A k \in 1..Len(r.data) : IsRow(text[h + 1 + k])

\* A table with a header, of a result cut to max_rows.
C21_Witness ==
    /\ norm.formatted
    /\ norm.out.success
    /\ norm.out.column_names # <<>>
    /\ norm.out.data # <<>>
    /\ norm.out.row_count > Len(norm.out.data)
    /\ Len(norm.text) = Len(norm.out.data) + 5

\* C22: for a successful result whose rows are positional sequences, lists
\* from HTTP and tuples or lists from the native driver, the formatter renders
\* each data row with one cell per value, in the order of the row, under the
\* column names: a row of several values is never one cell.  Stated for the
\* results that have as many column names as every row has values.
C22_OneCellPerValue ==
    (/\ norm.formatted /\ norm.out.success /\ norm.out.data # <<>>
     /\ norm.max_rows \in 1..MaxRowsLimit
     /\ RowKinds(norm.out) \subseteq {"list", "tuple"}
     /\ \A k \in DOMAIN norm.out.data :
            PyLen(norm.out.data[k]) = Len(norm.out.column_names)) =>
        LET data == norm.out.data
            h == IF norm.out.column_names = <<>> THEN 0 ELSE 2
        IN \A k \in DOMAIN data :
              LET line == norm.text[h + 1 + k]
              IN /\ IsRow(line)
                 /\ Len(line.cells) = PyLen(data[k])
                 /\ \A i \in 1..PyLen(data[k]) : line.cells[i] = StrOfCell(data[k].cells[i])

\* C23: for a query with bound parameters, the statement executed on the
\* alternate transport is the statement executed on the primary: the text
\* handed to the native transport has every present {name} placeholder
\* replaced exactly as in the text handed to the HTTP transport.
C23_SameStatement ==
    (call.params # <<>> /\ Len(call.statements) = 2) =>
        call.statements[2] = call.statements[1]

\* C24: in every reachable state, before the startup, after any outcome of
\* it, while the server runs and after the shutdown, app_context.connection is
\* set if and only if app_context.connection_mode is http or native, and when
\* it is set its connection_type is the connection_mode.
C24_ContextConsistent ==
    /\ app_context.connection.present <=> app_context.connection_mode \in {"http", "native"}
    /\ app_context.connection.present =>
          app_context.connection.connection_type = app_context.connection_mode

\* The context was set by a startup that ended on native, and cleared by the
\* shutdown.
C24_Witness ==
    /\ phase = "closed"
    /\ releases = 1
    /\ ~app_context.connection.present
    /\ probes # <<>>
    /\ probes[Len(probes)] = Probe("native", "execute", "ok")

SingleStatement(text) ==
    \A i \in 1..(Len(text) - 1) : text[i] # ";"

\* C26: the single-statement rule holds for what is sent: for every sql and
\* every parameter mapping, the statement text handed to a transport holds no
\* ";" other than as its last character; a substituted value cannot bring in
\* a statement separator that the validation did not see.
C26_SingleStatementSent ==
    \A i \in DOMAIN call.statements : SingleStatement(call.statements[i])

====
